---- MODULE Spec2Model ----
(***************************************************************************)
(* Model of the Cantus front end's chant search controller (query          *)
(* construction, result store), of the notation search view that           *)
(* synchronizes search results with the Diva facsimile viewer, of the      *)
(* manuscript page view that owns it, of the navigation tab and of the     *)
(* loading of bundled templates.                                           *)
(*                                                                         *)
(* JavaScript strings that the code measures, splits or joins are          *)
(* sequences of one-character strings; field names, which the code only    *)
(* compares and suffixes, are TLA+ strings.                                *)
(***************************************************************************)
EXTENDS Integers, Sequences, FiniteSets, TLC

VARIABLES
    searchParameters,   \* controller: the SearchInput model {query, field}
    restrictions,       \* controller: this.restrictions, in insertion order
    collection,         \* controller: the SearchResultCollection and its fetches
    notationView,       \* notation search view: query, field, manuscript, results, paginator
    resultFetches,      \* notation search view: the fetches of its results model
    divaView,           \* the viewer: the boxes painted and the location zoomed to
    page,               \* the view's elements .note-search-results and .note-pagination
    manuscriptPage,     \* the manuscript page view, its manuscript model and folio view
    navTab,             \* the navigation tab and the folio of the manuscript channel
    templateCache,      \* the template store and the outcome of the last loadTemplate
    handler,            \* the handler that ran last and its arguments
    calls               \* the calls the last handler made, in order

controllerVars == <<searchParameters, restrictions, collection>>

viewVars == <<notationView, resultFetches, divaView, page>>

appVars == <<manuscriptPage, navTab, templateCache>>

vars == <<searchParameters, restrictions, collection,
          notationView, resultFetches, divaView, page,
          manuscriptPage, navTab, templateCache, handler, calls>>

(***************************************************************************)
(* Bounds of the model                                                     *)
(***************************************************************************)
MaxFetches == 3      \* fetches one controller dispatches in a run
MaxResults == 1      \* result records in one response
MaxUnreturned == 1   \* numFound minus the number of records returned
MaxQueryLen == 5     \* characters of a string query (query construction)
MaxValues == 3       \* values of a sequence query (query construction)
MaxSubmits == 2      \* searches the notation search view sends to the backend
MaxPageFetches == 2  \* fetches of the manuscript the page view sends to the backend
MaxFolioChanges == 3 \* 'change:folio' events the navigation tab renders for
MaxIdLen == 3        \* characters of a template id

(***************************************************************************)
(* JavaScript values: a query is a string, an array of strings, null or    *)
(* undefined.  One record shape for all of them.                           *)
(***************************************************************************)
Str(s) == [kind |-> "string", str |-> s, arr |-> <<>>]
Arr(a) == [kind |-> "array", str |-> <<>>, arr |-> a]
Null == [kind |-> "null", str |-> <<>>, arr |-> <<>>]
Undefined == [kind |-> "undefined", str |-> <<>>, arr |-> <<>>]

\* _.isString
IsString(v) == v.kind = "string"

\* JavaScript truthiness of a query value: '', null and undefined are falsy,
\* every array (the empty one too) is truthy.
Truthy(v) == v.kind = "array" \/ (v.kind = "string" /\ v.str # <<>>)

RECURSIVE SeqsUpTo(_, _)
SeqsUpTo(S, n) ==
    IF n = 0 THEN {<<>>}
    ELSE LET shorter == SeqsUpTo(S, n - 1)
         IN shorter \cup {Append(s, x) : s \in shorter, x \in S}

\* String.prototype.split(','): the pieces between the commas, empty ones kept.
RECURSIVE Split(_)
Split(s) ==
    IF \A i \in 1..Len(s) : s[i] # ","
    THEN <<s>>
    ELSE LET i == CHOOSE k \in 1..Len(s) : s[k] = "," /\ \A j \in 1..(k - 1) : s[j] # ","
         IN <<SubSeq(s, 1, i - 1)>> \o Split(SubSeq(s, i + 1, Len(s)))

\* Array.prototype.join(sep)
RECURSIVE Join(_, _)
Join(a, sep) ==
    IF a = <<>> THEN <<>>
    ELSE IF Len(a) = 1 THEN a[1]
    ELSE a[1] \o sep \o Join(Tail(a), sep)

(***************************************************************************)
(* The chant search controller                                             *)
(***************************************************************************)
KNOWN_FIELDS == <<"all", "manuscript", "volpiano", "mode", "feast", "genre", "office">>

stringFields ==
    {"feast", "office", "genre", "position", "mode", "differentia", "finalis", "folio"}

\* A mapping that leaves every field name as it is.
getSearchFieldUnmapped(field) == field

getSearchField(field) ==
    IF field \in stringFields THEN field \o "_t_hidden" ELSE field

\* One SolrQuery.setField(name, value, combinator) call as the builder receives it.
SetField(queryBuilder, name, value, combinator) ==
    Append(queryBuilder, [name |-> name, value |-> value, combinator |-> combinator])

OR_SEP == <<" ", "O", "R", " ">>

hardCodedQuery(modeStringValues, modeTextValues) ==
    <<"(", "m", "o", "d", "e", ":", "(">>
        \o Join(modeStringValues, OR_SEP)
        \o <<")", " ", "O", "R", " ", "m", "o", "d", "e", "_", "t", "_",
             "h", "i", "d", "d", "e", "n", ":", "(">>
        \o Join(modeTextValues, OR_SEP)
        \o <<")", ")">>

modeStringValuesOf(query) == SelectSeq(query, LAMBDA value : Len(value) = 1)

modeTextValuesOf(query) == SelectSeq(query, LAMBDA value : ~(Len(value) = 1))

\* The builder that gets one constraint per mode field instead of the
\* composite clause.
setSearchQuerySeparateFields(queryBuilder, field, query) ==
    IF field # "mode"
    THEN SetField(queryBuilder, getSearchField(field), query, "OR")
    ELSE IF IsString(query)
    THEN SetField(queryBuilder,
                  IF Len(query.str) = 1 THEN "mode" ELSE "mode_t_hidden",
                  query, "default")
    ELSE LET modeStringValues == modeStringValuesOf(query.arr)
             modeTextValues == modeTextValuesOf(query.arr)
         IN IF Len(modeStringValues) = 0
            THEN SetField(queryBuilder, "mode_t_hidden", Arr(modeTextValues), "OR")
            ELSE IF Len(modeTextValues) = 0
            THEN SetField(queryBuilder, "mode", Arr(modeStringValues), "OR")
            ELSE SetField(SetField(queryBuilder, "mode", Arr(modeStringValues), "OR"),
                          "mode_t_hidden", Arr(modeTextValues), "OR")

\* The builder that writes the composite clause for every sequence of mode
\* values, those of one kind too.
setSearchQueryAlwaysComposite(queryBuilder, field, query) ==
    IF field # "mode"
    THEN SetField(queryBuilder, getSearchField(field), query, "OR")
    ELSE IF IsString(query)
    THEN SetField(queryBuilder,
                  IF Len(query.str) = 1 THEN "mode" ELSE "mode_t_hidden",
                  query, "default")
    ELSE SetField(queryBuilder, "_hardcodedSpecialQuery",
                  Str(hardCodedQuery(modeStringValuesOf(query.arr),
                                     modeTextValuesOf(query.arr))),
                  "default")

\* The builder that sets the query of a field other than mode without a
\* combinator.
setSearchQueryNoCombinator(queryBuilder, field, query) ==
    IF field # "mode"
    THEN SetField(queryBuilder, getSearchField(field), query, "default")
    ELSE IF IsString(query)
    THEN SetField(queryBuilder,
                  IF Len(query.str) = 1 THEN "mode" ELSE "mode_t_hidden",
                  query, "default")
    ELSE LET modeStringValues == modeStringValuesOf(query.arr)
             modeTextValues == modeTextValuesOf(query.arr)
         IN IF Len(modeStringValues) = 0
            THEN SetField(queryBuilder, "mode_t_hidden", Arr(modeTextValues), "OR")
            ELSE IF Len(modeTextValues) = 0
            THEN SetField(queryBuilder, "mode", Arr(modeStringValues), "OR")
            ELSE SetField(queryBuilder, "_hardcodedSpecialQuery",
                          Str(hardCodedQuery(modeStringValues, modeTextValues)),
                          "default")

setSearchQueryOnBuilder(queryBuilder, field, query) ==
    IF field # "mode"
    THEN SetField(queryBuilder, getSearchField(field), query, "OR")
    ELSE IF IsString(query)
    THEN SetField(queryBuilder,
                  IF Len(query.str) = 1 THEN "mode" ELSE "mode_t_hidden",
                  query, "default")
    ELSE LET modeStringValues == modeStringValuesOf(query.arr)
             modeTextValues == modeTextValuesOf(query.arr)
         IN IF Len(modeStringValues) = 0
            THEN SetField(queryBuilder, "mode_t_hidden", Arr(modeTextValues), "OR")
            ELSE IF Len(modeTextValues) = 0
            THEN SetField(queryBuilder, "mode", Arr(modeStringValues), "OR")
            ELSE SetField(queryBuilder, "_hardcodedSpecialQuery",
                          Str(hardCodedQuery(modeStringValues, modeTextValues)),
                          "default")

\* A builder that gets the first restriction only.
setFirstRestrictionOnBuilder(queryBuilder, restr) ==
    IF restr = <<>> THEN queryBuilder
    ELSE SetField(queryBuilder, getSearchField(restr[1].field), restr[1].value, "default")

\* _.forEach(this.restrictions, ...): one setField per restriction, in
\* insertion order.
RECURSIVE setRestrictionsOnBuilder(_, _)
setRestrictionsOnBuilder(queryBuilder, restr) ==
    IF restr = <<>> THEN queryBuilder
    ELSE setRestrictionsOnBuilder(
            SetField(queryBuilder, getSearchField(restr[1].field), restr[1].value, "default"),
            Tail(restr))

\* this.restrictions[field] = value on an object that keeps insertion order.
PutRestriction(restr, field, value) ==
    IF \E i \in 1..Len(restr) : restr[i].field = field
    THEN [i \in 1..Len(restr) |->
            IF restr[i].field = field THEN [field |-> field, value |-> value] ELSE restr[i]]
    ELSE Append(restr, [field |-> field, value |-> value])

(***************************************************************************)
(* SearchResultCollection: fetch, invalidateFetch, reset and the           *)
(* completion of a fetch.  `current` is the fetch whose completion is      *)
(* still authoritative (0: none), `issued` counts the fetches dispatched,  *)
(* `pending` holds the requests in flight and `baseSolrQuery` the builder  *)
(* the last fetch was dispatched with.                                     *)
(***************************************************************************)
NewCollection ==
    [results |-> <<>>, numFound |-> 0, current |-> 0, issued |-> 0, pending |-> {},
     baseSolrQuery |-> <<>>]

CollectionFetch(c, baseSolrQuery) ==
    [c EXCEPT !.issued = c.issued + 1,
              !.current = c.issued + 1,
              !.pending = c.pending \cup {c.issued + 1},
              !.baseSolrQuery = baseSolrQuery]

InvalidateFetch(c) == [c EXCEPT !.current = 0]

CollectionReset(c) == [c EXCEPT !.results = <<>>, !.numFound = 0]

\* The records a backend returns for request `id`: n records, numFound in all.
Response(id, n, numFound) ==
    [results |-> [i \in 1..n |-> [fetch |-> id, index |-> i]], numFound |-> numFound]

Responses(id) == {Response(id, n, n) : n \in 0..MaxResults}

\* The store adopts a response only when the request is still authoritative.
CollectionComplete(c, f, resp) ==
    IF f = c.current
    THEN [c EXCEPT !.pending = c.pending \ {f},
                   !.results = resp.results,
                   !.numFound = resp.numFound]
    ELSE [c EXCEPT !.pending = c.pending \ {f}]

(***************************************************************************)
(* search(): the state after the call and the calls made                   *)
(***************************************************************************)
\* The splitting rule of search() and the builder it hands to fetch.
splitQueryOf(field, query) ==
    IF field # "all" /\ IsString(query) THEN Arr(Split(query.str)) ELSE query

queryBuilderOf(sp, restr) ==
    setRestrictionsOnBuilder(
        setSearchQueryOnBuilder(<<>>, sp.field, splitQueryOf(sp.field, sp.query)), restr)

\* search() that invalidates on every call, after the fetch too.
searchInvalidatesAlways(sp, restr, c) ==
    IF ~Truthy(sp.query)
    THEN [collection |-> CollectionReset(InvalidateFetch(c)),
          calls |-> <<"search", "invalidateFetch", "reset">>]
    ELSE [collection |-> InvalidateFetch(CollectionFetch(c, queryBuilderOf(sp, restr))),
          calls |-> <<"search", "fetch", "invalidateFetch">>]

\* search() that resets the store of an empty query and leaves its fetch valid.
searchWithoutInvalidate(sp, restr, c) ==
    IF ~Truthy(sp.query)
    THEN [collection |-> CollectionReset(c), calls |-> <<"search", "reset">>]
    ELSE [collection |-> CollectionFetch(c, queryBuilderOf(sp, restr)),
          calls |-> <<"search", "fetch">>]

\* search() that tests query === '' and so takes null and undefined for a query.
searchStrictEmpty(sp, restr, c) ==
    IF sp.query = Str(<<>>)
    THEN [collection |-> CollectionReset(InvalidateFetch(c)),
          calls |-> <<"search", "invalidateFetch", "reset">>]
    ELSE [collection |-> CollectionFetch(c, queryBuilderOf(sp, restr)),
          calls |-> <<"search", "fetch">>]

search(sp, restr, c) ==
    LET query == sp.query
        field == sp.field
    IN IF ~Truthy(query)
       THEN [collection |-> CollectionReset(InvalidateFetch(c)),
             calls |-> <<"search", "invalidateFetch", "reset">>]
       ELSE LET splitQuery == splitQueryOf(field, query)
                queryBuilder ==
                    setRestrictionsOnBuilder(
                        setSearchQueryOnBuilder(<<>>, field, splitQuery), restr)
            IN [collection |-> CollectionFetch(c, queryBuilder),
                calls |-> <<"search", "fetch">>]

\* The change events of Backbone's Model.set on {field, query}: one per
\* attribute whose value changed, fired after every attribute is set.
ChangeEvents(old, new) ==
    (IF old.field # new.field THEN <<"change:field">> ELSE <<>>)
        \o (IF old.query # new.query THEN <<"change:query">> ELSE <<>>)

\* this.listenTo(this.searchParameters, 'change:query change:field', this.search)
\* A listener bound to 'change:query' alone.
SearchTriggersQueryOnly == {"change:query"}

SearchTriggers == {"change:query", "change:field"}

RECURSIVE Dispatch(_, _, _, _)
Dispatch(events, sp, restr, c) ==
    IF events = <<>> THEN [collection |-> c, calls |-> <<>>]
    ELSE LET first == IF Head(events) \in SearchTriggers
                      THEN search(sp, restr, c)
                      ELSE [collection |-> c, calls |-> <<>>]
             rest == Dispatch(Tail(events), sp, restr, first.collection)
         IN [collection |-> rest.collection, calls |-> first.calls \o rest.calls]

Fetches(callSeq) == Len(SelectSeq(callSeq, LAMBDA x : x = "fetch"))

\* searchParameters.set(attrs) and the searches its change events run.
SetParameters(op, new) ==
    LET out == Dispatch(ChangeEvents(searchParameters, new), new, restrictions, collection)
    IN /\ collection.issued + Fetches(out.calls) <= MaxFetches
       /\ searchParameters' = new
       /\ collection' = out.collection
       /\ calls' = out.calls
       /\ handler' = [op |-> op, field |-> "", value |-> Null]
       /\ UNCHANGED <<restrictions, viewVars, appVars>>

\* onSearch(query): set the query on the model; the change event searches.
onSearch(query) ==
    SetParameters("onSearch", [searchParameters EXCEPT !.query = query])

\* The search input view sets the field the user picked on the model.
setField(field) ==
    SetParameters("setField", [searchParameters EXCEPT !.field = field])

\* display(field, query, regions): set both attributes, then show the views.
display(field, query) ==
    LET new == [field |-> field, query |-> query]
        out == Dispatch(ChangeEvents(searchParameters, new), new, restrictions, collection)
    IN /\ collection.issued + Fetches(out.calls) <= MaxFetches
       /\ searchParameters' = new
       /\ collection' = out.collection
       /\ calls' = out.calls \o <<"searchInput.show", "searchHelper.empty",
                                  "searchResultHeading.show", "searchResults.show">>
       /\ handler' = [op |-> "display", field |-> "", value |-> Null]
       /\ UNCHANGED <<restrictions, viewVars, appVars>>

\* setRestriction that redoes the search before it stores the restriction.
setRestrictionSearchFirst(field, value) ==
    LET out == IF Truthy(searchParameters.query)
               THEN search(searchParameters, restrictions, collection)
               ELSE [collection |-> collection, calls |-> <<>>]
    IN /\ collection.issued + Fetches(out.calls) <= MaxFetches
       /\ restrictions' = PutRestriction(restrictions, field, value)
       /\ collection' = out.collection
       /\ calls' = out.calls
       /\ handler' = [op |-> "setRestriction", field |-> field, value |-> value]
       /\ UNCHANGED <<searchParameters, viewVars, appVars>>

setRestriction(field, value) ==
    LET restr == PutRestriction(restrictions, field, value)
        out == IF Truthy(searchParameters.query)
               THEN search(searchParameters, restr, collection)
               ELSE [collection |-> collection, calls |-> <<>>]
    IN /\ collection.issued + Fetches(out.calls) <= MaxFetches
       /\ restrictions' = restr
       /\ collection' = out.collection
       /\ calls' = out.calls
       /\ handler' = [op |-> "setRestriction", field |-> field, value |-> value]
       /\ UNCHANGED <<searchParameters, viewVars, appVars>>

\* A fetch of the collection completes with a response.
fetchSuccess(f, resp) ==
    /\ f \in collection.pending
    /\ collection' = CollectionComplete(collection, f, resp)
    /\ calls' = IF f = collection.current THEN <<"sync">> ELSE <<"ignored">>
    /\ handler' = [op |-> "fetchSuccess", field |-> "", value |-> Null]
    /\ UNCHANGED <<searchParameters, restrictions, viewVars, appVars>>

\* A fetch of the collection fails: nothing handles the failure.
fetchError(f) ==
    /\ f \in collection.pending
    /\ collection' = [collection EXCEPT !.pending = collection.pending \ {f}]
    /\ calls' = <<"error">>
    /\ handler' = [op |-> "fetchError", field |-> "", value |-> Null]
    /\ UNCHANGED <<searchParameters, restrictions, viewVars, appVars>>

(***************************************************************************)
(* The notation search view                                                *)
(***************************************************************************)
\* encodeURIComponent over the characters of the inputs: a space becomes
\* %20, letters and digits stay.
RECURSIVE encodeURIComponent(_)
encodeURIComponent(s) ==
    IF s = <<>> THEN <<>>
    ELSE (IF Head(s) = " " THEN <<"%", "2", "0">> ELSE <<Head(s)>>)
            \o encodeURIComponent(Tail(s))

RECURSIVE decodeURIComponent(_)
decodeURIComponent(s) ==
    IF s = <<>> THEN <<>>
    ELSE IF Len(s) >= 3 /\ SubSeq(s, 1, 3) = <<"%", "2", "0">>
    THEN <<" ">> \o decodeURIComponent(SubSeq(s, 4, Len(s)))
    ELSE <<Head(s)>> \o decodeURIComponent(Tail(s))

\* What indexing a JavaScript array past its end yields.
UndefinedRecord == [fetch |-> 0, index |-> 0]

\* a[i] of a JavaScript array, i counted from 0.
ItemAt(a, i) == IF i + 1 \in 1..Len(a) THEN a[i + 1] ELSE UndefinedRecord

\* new PaginationView(options); paginators are told apart by `id`.
PaginationView(id, currentPage, elementCount, pageSize) ==
    [id |-> id, currentPage |-> currentPage, elementCount |-> elementCount,
     pageSize |-> pageSize]

getPage(paginator) == paginator.currentPage

\* The pages of a paginator: ceil(elementCount / pageSize).
pageCount(paginator) ==
    (paginator.elementCount + paginator.pageSize - 1) \div paginator.pageSize

NoUrl == [q |-> Undefined, type |-> Undefined, manuscript |-> Undefined]

\* initialize(options).  `listening` holds the paginators whose 'change' the
\* view listens to, `listeningSync` tells whether it listens to 'sync' of its
\* results model, `delegated` whether its DOM events are delegated, and
\* `removed` whether remove() has set its references to null.
NewNotationView ==
    [query |-> Null, field |-> Null, manuscript |-> Undefined,
     results |-> [url |-> NoUrl, fetch |-> 0, results |-> <<>>, numFound |-> 0],
     paginator |-> PaginationView(0, 1, 0, 1),
     constructed |-> 0,
     listening |-> {},
     listeningSync |-> TRUE,
     delegated |-> TRUE,
     removed |-> FALSE]

TemplateHtml == [kind |-> "template", numFound |-> 0, field |-> Null, query |-> <<>>]

\* clearResults(message)
clearResults ==
    [noteSearchResults |->
        [kind |-> "message", numFound |-> 0, field |-> Null, query |-> <<>>],
     notePagination |-> 0]

\* renderResults()
renderResults(view) ==
    [noteSearchResults |->
        [kind |-> "heading", numFound |-> view.results.numFound, field |-> view.field,
         query |-> decodeURIComponent(view.query.str)],
     notePagination |-> view.paginator.id]

\* zoomToResult(): the record handed to divaView.zoomToLocation
zoomToResult(paginator, results) == ItemAt(results.results, getPage(paginator) - 1)

setManuscript(manuscript) ==
    /\ notationView' = [notationView EXCEPT !.manuscript = manuscript]
    /\ handler' = [op |-> "setManuscript", field |-> "", value |-> Null]
    /\ calls' = <<>>
    /\ UNCHANGED <<resultFetches, divaView, page, controllerVars, appVars>>

\* newSearch(event): the submit handler, on the text of .query-input and the
\* value of .search-field.
newSearch(text, fieldValue) ==
    LET q == encodeURIComponent(text)
    IN IF q = <<>>
       THEN /\ notationView.delegated
            /\ notationView' = [notationView EXCEPT !.query = Str(q)]
            /\ divaView' = [divaView EXCEPT !.boxes = <<>>]
            /\ page' = clearResults
            /\ calls' = <<"paintBoxes", "clearResults">>
            /\ handler' = [op |-> "newSearch", field |-> "", value |-> Null]
            /\ UNCHANGED <<resultFetches, controllerVars, appVars>>
       ELSE LET type == encodeURIComponent(fieldValue)
            IN /\ notationView.delegated
               /\ resultFetches.issued < MaxSubmits
               /\ notationView' =
                    [notationView EXCEPT
                        !.query = Str(q),
                        !.field = Str(type),
                        !.results.url = [q |-> Str(q), type |-> Str(type),
                                         manuscript |-> notationView.manuscript]]
               /\ resultFetches' =
                    [issued |-> resultFetches.issued + 1,
                     pending |-> resultFetches.pending \cup {resultFetches.issued + 1}]
               /\ calls' = <<"fetch">>
               /\ handler' = [op |-> "newSearch", field |-> "", value |-> Null]
               /\ UNCHANGED <<divaView, page, controllerVars, appVars>>

\* A callback that paints only when there are results to paint.
resultFetchCallbackSkipsEmpty(results) ==
    LET paginator == PaginationView(notationView.constructed + 1, 1, results.numFound, 1)
        view == [notationView EXCEPT
                    !.results = results,
                    !.paginator = paginator,
                    !.constructed = notationView.constructed + 1,
                    !.listening = notationView.listening \cup {paginator.id}]
    IN /\ notationView' = view
       /\ divaView' = [boxes |-> IF results.results = <<>> THEN divaView.boxes
                                  ELSE results.results,
                       location |-> <<zoomToResult(paginator, results)>>]
       /\ page' = renderResults(view)
       /\ calls' = (IF results.results = <<>> THEN <<>> ELSE <<"paintBoxes">>)
                        \o <<"new PaginationView", "zoomToLocation",
                              "listenTo", "renderResults">>
       /\ handler' = [op |-> "resultFetchCallback", field |-> "", value |-> Null]
       /\ UNCHANGED <<controllerVars, appVars>>

\* A callback whose new paginator starts on the page the old one was on.
resultFetchCallbackKeepsPage(results) ==
    LET paginator == PaginationView(notationView.constructed + 1,
                                    getPage(notationView.paginator), results.numFound, 1)
        view == [notationView EXCEPT
                    !.results = results,
                    !.paginator = paginator,
                    !.constructed = notationView.constructed + 1,
                    !.listening = notationView.listening \cup {paginator.id}]
    IN /\ notationView' = view
       /\ divaView' = [boxes |-> results.results,
                       location |-> <<zoomToResult(paginator, results)>>]
       /\ page' = renderResults(view)
       /\ calls' = <<"paintBoxes", "new PaginationView", "zoomToLocation",
                     "listenTo", "renderResults">>
       /\ handler' = [op |-> "resultFetchCallback", field |-> "", value |-> Null]
       /\ UNCHANGED <<controllerVars, appVars>>

\* resultFetchCallback(), run on 'sync' of the results model, whose
\* attributes are `results` by then.
resultFetchCallback(results) ==
    LET paginator == PaginationView(notationView.constructed + 1, 1, results.numFound, 1)
        view == [notationView EXCEPT
                    !.results = results,
                    !.paginator = paginator,
                    !.constructed = notationView.constructed + 1,
                    !.listening = notationView.listening \cup {paginator.id}]
    IN /\ notationView' = view
       /\ divaView' = [boxes |-> results.results,
                       location |-> <<zoomToResult(paginator, results)>>]
       /\ page' = renderResults(view)
       /\ calls' = <<"paintBoxes", "new PaginationView", "zoomToLocation",
                     "listenTo", "renderResults">>
       /\ handler' = [op |-> "resultFetchCallback", field |-> "", value |-> Null]
       /\ UNCHANGED <<controllerVars, appVars>>

\* Backbone's Model.fetch succeeds: the response becomes the attributes of
\* the results model and 'sync' is triggered; the callback runs when the
\* view still listens.
resultSync(f, resp) ==
    /\ f \in resultFetches.pending
    /\ resultFetches' = [resultFetches EXCEPT !.pending = resultFetches.pending \ {f}]
    /\ IF notationView.listeningSync
       THEN resultFetchCallback([notationView.results EXCEPT
                                    !.fetch = f,
                                    !.results = resp.results,
                                    !.numFound = resp.numFound])
       ELSE /\ calls' = <<"sync">>
            /\ handler' = [op |-> "resultSync", field |-> "", value |-> Null]
            /\ UNCHANGED <<notationView, divaView, page, controllerVars, appVars>>

\* remove() that sets the references to null and keeps the listeners.
removeViewKeepsListening(view) ==
    [view EXCEPT !.query = Null, !.manuscript = Null, !.removed = TRUE]

\* remove(): the fields of the view afterwards.  stopListening() ends the
\* listening to the results model and to every paginator, undelegateEvents()
\* the DOM events.
removeView(view) ==
    [view EXCEPT !.query = Null, !.manuscript = Null, !.removed = TRUE,
                 !.listening = {}, !.listeningSync = FALSE, !.delegated = FALSE]

\* remove() of the notation search view; paginator.remove() takes the
\* paginator off the page.
remove ==
    /\ ~notationView.removed
    /\ notationView' = removeView(notationView)
    /\ page' = [page EXCEPT !.notePagination = 0]
    /\ calls' = <<"paginator.remove", "stopListening", "undelegateEvents">>
    /\ handler' = [op |-> "remove", field |-> "", value |-> Null]
    /\ UNCHANGED <<resultFetches, divaView, controllerVars, appVars>>

\* A failure that is handled by erasing the boxes and the markup.
resultErrorClearsResults(f) ==
    /\ f \in resultFetches.pending
    /\ resultFetches' = [resultFetches EXCEPT !.pending = resultFetches.pending \ {f}]
    /\ divaView' = [divaView EXCEPT !.boxes = <<>>]
    /\ page' = clearResults
    /\ calls' = <<"error", "paintBoxes", "clearResults">>
    /\ handler' = [op |-> "resultError", field |-> "", value |-> Null]
    /\ UNCHANGED <<notationView, controllerVars, appVars>>

\* Backbone's Model.fetch fails: 'error' is triggered and nothing listens.
resultError(f) ==
    /\ f \in resultFetches.pending
    /\ resultFetches' = [resultFetches EXCEPT !.pending = resultFetches.pending \ {f}]
    /\ calls' = <<"error">>
    /\ handler' = [op |-> "resultError", field |-> "", value |-> Null]
    /\ UNCHANGED <<notationView, divaView, page, controllerVars, appVars>>

\* The user moves the paginator shown in .note-pagination to another page:
\* its 'change' runs zoomToResult.
paginatorChange(newPage) ==
    /\ page.notePagination = notationView.paginator.id
    /\ notationView.paginator.id \in notationView.listening
    /\ newPage \in 1..pageCount(notationView.paginator)
    /\ newPage # getPage(notationView.paginator)
    /\ notationView' = [notationView EXCEPT !.paginator.currentPage = newPage]
    /\ divaView' = [divaView EXCEPT
            !.location = <<zoomToResult([notationView.paginator EXCEPT
                                            !.currentPage = newPage],
                                        notationView.results)>>]
    /\ calls' = <<"zoomToLocation">>
    /\ handler' = [op |-> "zoomToResult", field |-> "", value |-> Null]
    /\ UNCHANGED <<resultFetches, page, controllerVars, appVars>>

(***************************************************************************)
(* The manuscript page view: its manuscript model with the fetches of      *)
(* getData(), its listeners, and the folio view and search view it feeds.  *)
(***************************************************************************)
\* String(value) of a value that is a string or undefined.
StringOf(v) == IF IsString(v) THEN v.str ELSE <<"u", "n", "d", "e", "f", "i", "n", "e", "d">>

\* "folio-set/manuscript/" + id + "/" + folio + "/", after GlobalVars.siteUrl
FolioSetUrl(id, folio) ==
    <<"f", "o", "l", "i", "o", "-", "s", "e", "t", "/",
      "m", "a", "n", "u", "s", "c", "r", "i", "p", "t", "/">>
        \o StringOf(id) \o <<"/">> \o StringOf(folio) \o <<"/">>

\* ' AND manuscript:"' + siglum + '"'
QueryPostScript(siglum) ==
    <<" ", "A", "N", "D", " ", "m", "a", "n", "u", "s", "c", "r", "i", "p", "t", ":", "\"">>
        \o StringOf(siglum) \o <<"\"">>

NoManuscript == [id |-> Undefined, siglum |-> Undefined, siglum_slug |-> Undefined]

\* initialize(options): `manuscript` holds the attributes of the Manuscript
\* model, `folio` what divaView.getFolio() returns, `triggered` the events
\* the last updateFolio() triggered, `listening` the events the view listens
\* to, `removed` whether remove() has run to its end.
NewManuscriptPage ==
    [manuscript |-> NoManuscript,
     issued |-> 0,
     pending |-> {},
     folio |-> Undefined,
     folioView |-> [url |-> <<>>, customNumber |-> Undefined],
     queryPostScript |-> <<>>,
     divaManuscript |-> Undefined,
     triggered |-> <<>>,
     listening |-> {"change", "manuscriptChangeFolio"},
     removed |-> FALSE]

\* getData(): this.manuscript.fetch()
getData ==
    /\ ~manuscriptPage.removed
    /\ manuscriptPage.issued < MaxPageFetches
    /\ manuscriptPage' =
            [manuscriptPage EXCEPT
                !.issued = manuscriptPage.issued + 1,
                !.pending = manuscriptPage.pending \cup {manuscriptPage.issued + 1}]
    /\ calls' = <<"fetch">>
    /\ handler' = [op |-> "getData", field |-> "", value |-> Null]
    /\ UNCHANGED <<controllerVars, viewVars, navTab, templateCache>>

\* afterFetch(), run on 'change' of the manuscript; `mp` is the page with
\* the new attributes of the model.
afterFetch(mp) ==
    /\ manuscriptPage' =
            [mp EXCEPT
                !.queryPostScript = QueryPostScript(mp.manuscript.siglum),
                !.divaManuscript = mp.manuscript.siglum_slug]
    /\ notationView' = [notationView EXCEPT !.manuscript = mp.manuscript.siglum_slug]
    /\ calls' = <<"setQueryPostScript", "divaView.setManuscript",
                  "searchNotationView.setManuscript", "render">>
    /\ handler' = [op |-> "afterFetch", field |-> "", value |-> Null]

\* A fetch of the manuscript succeeds: the response becomes the attributes
\* of the model, and 'change' is triggered when they differ from the ones
\* it had; afterFetch runs when the view still listens.
manuscriptSync(f, attrs) ==
    LET mp == [manuscriptPage EXCEPT !.manuscript = attrs,
                                     !.pending = manuscriptPage.pending \ {f}]
        changed == attrs # manuscriptPage.manuscript
    IN /\ f \in manuscriptPage.pending
       /\ IF changed /\ "change" \in manuscriptPage.listening
          THEN afterFetch(mp)
          ELSE /\ manuscriptPage' = mp
               /\ calls' = IF changed THEN <<"change">> ELSE <<>>
               /\ handler' = [op |-> "manuscriptSync", field |-> "", value |-> Null]
               /\ UNCHANGED notationView
       /\ UNCHANGED <<controllerVars, resultFetches, divaView, page, navTab, templateCache>>

\* An event triggered on the GlobalEventHandler: its name, its argument and
\* the custom number the folio view has when it is triggered.
Triggered(event, folio, folioView) ==
    [event |-> event, folio |-> folio, shown |-> folioView.customNumber]

\* updateFolio() that announces the folio before it rebuilds the folio view.
updateFolioTriggersFirst(mp) ==
    LET folio == mp.folio
        newUrl == FolioSetUrl(mp.manuscript.id, folio)
        folioView == [url |-> newUrl, customNumber |-> folio]
    IN /\ manuscriptPage' =
            [mp EXCEPT
                !.folioView = folioView,
                !.triggered = <<Triggered("ChangeFolio", folio, mp.folioView),
                                Triggered("SilentUrlUpdate", Undefined, folioView)>>]
       /\ calls' = <<"getFolio", "trigger:ChangeFolio", "setUrl", "setCustomNumber",
                     "update", "trigger:SilentUrlUpdate">>
       /\ handler' = [op |-> "updateFolio", field |-> "", value |-> Null]

\* updateFolio(), run on "manuscriptChangeFolio"; `mp` is the page with the
\* viewer on the folio it is on by then.
updateFolio(mp) ==
    LET folio == mp.folio
        newUrl == FolioSetUrl(mp.manuscript.id, folio)
        folioView == [url |-> newUrl, customNumber |-> folio]
    IN /\ manuscriptPage' =
            [mp EXCEPT
                !.folioView = folioView,
                !.triggered = <<Triggered("ChangeFolio", folio, folioView),
                                Triggered("SilentUrlUpdate", Undefined, folioView)>>]
       /\ calls' = <<"getFolio", "setUrl", "setCustomNumber", "update",
                     "trigger:ChangeFolio", "trigger:SilentUrlUpdate">>
       /\ handler' = [op |-> "updateFolio", field |-> "", value |-> Null]

\* The viewer is on `folio`, the one it was on or another, and
\* "manuscriptChangeFolio" is triggered on the GlobalEventHandler;
\* updateFolio runs when the view still listens.
manuscriptChangeFolio(folio) ==
    LET mp == [manuscriptPage EXCEPT !.folio = folio]
    IN /\ IF "manuscriptChangeFolio" \in manuscriptPage.listening
          THEN updateFolio(mp)
          ELSE /\ manuscriptPage' = mp
               /\ calls' = <<>>
               /\ handler' = [op |-> "manuscriptChangeFolio", field |-> "", value |-> Null]
       /\ UNCHANGED <<controllerVars, viewVars, navTab, templateCache>>

\* remove() of the page view that removes its subviews and keeps its own
\* listeners.
pageRemovedKeepsListening(mp) == [mp EXCEPT !.removed = TRUE]

\* remove() of the page view: the fields of the view afterwards.
pageRemoved(mp) == [mp EXCEPT !.listening = {}, !.removed = TRUE]

\* remove() of the manuscript page view.  It removes the notation search
\* view among its subviews; when that view has been removed before, its
\* remove() throws on the paginator it has set to null and the rest of this
\* remove() does not run.
pageRemove ==
    /\ ~manuscriptPage.removed
    /\ IF notationView.removed
       THEN /\ calls' = <<"divaView.remove", "searchView.remove",
                          "searchNotationView.remove", "TypeError">>
            /\ UNCHANGED <<manuscriptPage, notationView, page>>
       ELSE /\ manuscriptPage' = pageRemoved(manuscriptPage)
            /\ notationView' = removeView(notationView)
            /\ page' = [page EXCEPT !.notePagination = 0]
            /\ calls' = <<"divaView.remove", "searchView.remove",
                          "searchNotationView.remove", "folioView.remove",
                          "stopListening", "undelegateEvents", "$el.empty">>
    /\ handler' = [op |-> "pageRemove", field |-> "", value |-> Null]
    /\ UNCHANGED <<controllerVars, resultFetches, divaView, navTab, templateCache>>

(***************************************************************************)
(* The navigation tab and the manuscript channel it reads.  `folio` is     *)
(* what the channel replies to request('folio'), `payload` the argument of *)
(* the last 'change:folio' event, `number` the number the tab displays,    *)
(* `renders` the times it has rendered.                                    *)
(***************************************************************************)
\* initialize(): the tab listens to the channel and has not rendered yet.
NewNavTab ==
    [folio |-> Undefined, payload |-> Undefined, number |-> Undefined,
     renders |-> 0, listening |-> TRUE]

\* serializeData(): the data of a render
serializeData(tab) == [number |-> tab.folio]

\* A render that displays the argument of the event.
renderPayload(tab) ==
    [tab EXCEPT !.number = tab.payload, !.renders = tab.renders + 1]

\* render(): the template is filled with serializeData().
render(tab) ==
    [tab EXCEPT !.number = serializeData(tab).number, !.renders = tab.renders + 1]

\* The region shows the tab: its first render.
showNavTab ==
    /\ navTab.renders = 0
    /\ navTab.listening
    /\ navTab' = render(navTab)
    /\ calls' = <<"render", "request:folio">>
    /\ handler' = [op |-> "show", field |-> "", value |-> Null]
    /\ UNCHANGED <<controllerVars, viewVars, manuscriptPage, templateCache>>

\* The folio of the channel becomes `folio` and 'change:folio' is triggered
\* with `payload`; the tab renders when it listens.
changeFolio(folio, payload) ==
    LET tab == [navTab EXCEPT !.folio = folio, !.payload = payload]
    IN /\ folio # navTab.folio
       /\ navTab.renders < MaxFolioChanges
       /\ IF navTab.listening
          THEN /\ navTab' = render(tab)
               /\ calls' = <<"render", "request:folio">>
          ELSE /\ navTab' = tab
               /\ calls' = <<>>
       /\ handler' = [op |-> "change:folio", field |-> "", value |-> payload]
       /\ UNCHANGED <<controllerVars, viewVars, manuscriptPage, templateCache>>

\* destroy() of the tab: Marionette stops its listening.
destroyNavTab ==
    /\ navTab.listening
    /\ navTab' = [navTab EXCEPT !.listening = FALSE]
    /\ calls' = <<"stopListening">>
    /\ handler' = [op |-> "destroy", field |-> "", value |-> Null]
    /\ UNCHANGED <<controllerVars, viewVars, manuscriptPage, templateCache>>

(***************************************************************************)
(* The template store and Marionette.TemplateCache.prototype.loadTemplate  *)
(***************************************************************************)
Html == <<".", "h", "t", "m", "l">>

\* templateId.replace(/^#/, '') + '.html'
templateFileOf(templateId) ==
    (IF templateId # <<>> /\ Head(templateId) = "#" THEN Tail(templateId) ELSE templateId)
        \o Html

\* What a call that throws returns.
NoTemplate == "none"

NewTemplateCache(templates) ==
    [templates |-> templates, templateId |-> <<>>, returned |-> NoTemplate, thrown |-> ""]

\* A loader that strips every leading '#'.
RECURSIVE loadedStripAll(_, _)
loadedStripAll(templates, templateId) ==
    IF templateId # <<>> /\ Head(templateId) = "#"
    THEN loadedStripAll(templates, Tail(templateId))
    ELSE IF templateId \o Html \notin DOMAIN templates
    THEN [returned |-> NoTemplate, thrown |-> "NoTemplateError"]
    ELSE [returned |-> templates[templateId \o Html], thrown |-> ""]

\* loadTemplate(templateId): what it returns or throws
loaded(templates, templateId) ==
    LET templateFile == templateFileOf(templateId)
    IN IF templateFile \notin DOMAIN templates
       THEN [returned |-> NoTemplate, thrown |-> "NoTemplateError"]
       ELSE [returned |-> templates[templateFile], thrown |-> ""]

loadTemplate(templateId) ==
    LET out == loaded(templateCache.templates, templateId)
    IN /\ templateCache' = [templateCache EXCEPT !.templateId = templateId,
                                                 !.returned = out.returned,
                                                 !.thrown = out.thrown]
       /\ calls' = <<>>
       /\ handler' = [op |-> "loadTemplate", field |-> "", value |-> Str(templateId)]
       /\ UNCHANGED <<controllerVars, viewVars, manuscriptPage, navTab>>

(***************************************************************************)
(* Inputs                                                                  *)
(***************************************************************************)
FieldTypes == {KNOWN_FIELDS[i] : i \in 1..Len(KNOWN_FIELDS)}

\* Queries of the concurrency specification: the falsy values and strings
\* with and without a comma.
SearchQueries ==
    {Str(<<>>), Null, Undefined, Str(<<"a">>), Str(<<"1", ",", "a", "a">>)}

SearchFields == {"all", "mode"}

RestrictionFields == {"manuscript", "genre"}

RestrictionValues == {Str(<<"1">>)}

InitialRestrictions == {<<>>, <<[field |-> "manuscript", value |-> Str(<<"a">>)]>>}

\* The folios of a manuscript
Folios == {Str(<<"1", "r">>), Str(<<"1", "v">>), Str(<<"2", "r">>)}

\* What the backend answers to a fetch of the manuscript
Manuscripts ==
    {[id |-> Str(<<"3">>), siglum |-> Str(<<"C", "D", "N">>),
      siglum_slug |-> Str(<<"c", "d", "n">>)],
     [id |-> Str(<<"3">>), siglum |-> Str(<<"C", "D", "N", "2">>),
      siglum_slug |-> Str(<<"c", "d", "n">>)]}

\* The files of the template directory, as the bundle names them
TemplateFiles == {<<"a">> \o Html, <<"#", "a">> \o Html, <<"b">> \o Html}

\* The compiled templates
TemplateSources == {"function a", "function b"}

\* The bundle of the application
BundledTemplates == [file \in TemplateFiles |-> "function a"]

\* The state after construction of everything but the template store
InitViews ==
    /\ searchParameters = [field |-> "all", query |-> Str(<<>>)]
    /\ restrictions \in InitialRestrictions
    /\ collection = NewCollection
    /\ notationView = NewNotationView
    /\ resultFetches = [issued |-> 0, pending |-> {}]
    /\ divaView = [boxes |-> <<>>, location |-> <<>>]
    /\ page = [noteSearchResults |-> TemplateHtml, notePagination |-> 0]
    /\ manuscriptPage = NewManuscriptPage
    /\ navTab = NewNavTab
    /\ handler = [op |-> "initialize", field |-> "", value |-> Null]
    /\ calls = <<>>

Init ==
    /\ InitViews
    /\ templateCache = NewTemplateCache(BundledTemplates)

Next ==
    \/ \E q \in SearchQueries : onSearch(q)
    \/ \E f \in SearchFields : setField(f)
    \/ \E f \in SearchFields, q \in SearchQueries : display(f, q)
    \/ \E f \in RestrictionFields, v \in RestrictionValues : setRestriction(f, v)
    \/ \E f \in collection.pending : \E resp \in Responses(f) : fetchSuccess(f, resp)
    \/ \E f \in collection.pending : fetchError(f)

Spec == Init /\ [][Next]_vars

(***************************************************************************)
(* Query construction: a controller just built is asked to display one     *)
(* field and query, drawn from every string up to MaxQueryLen characters   *)
(* and every array of up to MaxValues values.                              *)
(***************************************************************************)
QueryChars == {"1", "a", ","}

ValueChars == {"1", "a"}

\* The values of a sequence query: one or two characters each.
QueryValues == SeqsUpTo(ValueChars, 2) \ {<<>>}

\* The name of a feast, as a user types it.
Easter == <<"E", "a", "s", "t", "e", "r">>

AllQueries ==
    {Str(s) : s \in SeqsUpTo(QueryChars, MaxQueryLen)}
        \cup {Arr(a) : a \in SeqsUpTo(QueryValues, MaxValues)}
        \cup {Null, Undefined, Str(Easter)}

\* The known field types, the other string-indexed fields and one field
\* name the controller does not know.
QueryFields == FieldTypes \cup {"position", "differentia", "finalis", "folio", "siglum"}

NextQuery ==
    /\ handler.op = "initialize"
    /\ \E f \in QueryFields, q \in AllQueries : display(f, q)

SpecQuery == Init /\ [][NextQuery]_vars

(***************************************************************************)
(* The notation search view with its viewer and its backend                *)
(***************************************************************************)
\* Texts typed into .query-input
QueryTexts == {<<>>, <<"a">>, <<"a", " ", "b">>}

\* Values of .search-field
NotationFields == {<<"n", "e", "u", "m", "e", "s">>, <<"p", "n", "a", "m", "e", "s">>}

ManuscriptSlugs == {Str(<<"c", "d", "n">>)}

\* What the notation search answers to request `id`.
NotationResponses(id) ==
    {Response(id, n, n + extra) : n \in 0..MaxResults, extra \in 0..MaxUnreturned}

NextView ==
    \/ \E text \in QueryTexts, f \in NotationFields : newSearch(text, f)
    \/ \E m \in ManuscriptSlugs : setManuscript(m)
    \/ \E f \in resultFetches.pending :
            \E resp \in NotationResponses(f) : resultSync(f, resp)
    \/ \E f \in resultFetches.pending : resultError(f)
    \/ \E p \in 1..(MaxResults + MaxUnreturned) : paginatorChange(p)

SpecView == Init /\ [][NextView]_vars

(***************************************************************************)
(* Fetches that fail: the controller and the notation search view side by  *)
(* side, each with a backend that answers or fails.                        *)
(***************************************************************************)
FailureQueries == {Str(<<>>), Str(<<"a">>)}

FailureTexts == {<<>>, <<"a">>}

NextFailure ==
    \/ \E q \in FailureQueries : onSearch(q)
    \/ \E f \in collection.pending : \E resp \in Responses(f) : fetchSuccess(f, resp)
    \/ \E f \in collection.pending : fetchError(f)
    \/ \E text \in FailureTexts : newSearch(text, <<"n", "e", "u", "m", "e", "s">>)
    \/ \E f \in resultFetches.pending : \E resp \in Responses(f) : resultSync(f, resp)
    \/ \E f \in resultFetches.pending : resultError(f)

SpecFailure == Init /\ [][NextFailure]_vars

(***************************************************************************)
(* The life of the views: the notation search view and the manuscript page *)
(* view with their backends, the viewer's folio events, and remove().      *)
(***************************************************************************)
NextLifecycle ==
    \/ newSearch(<<"a">>, <<"n", "e", "u", "m", "e", "s">>)
    \/ \E f \in resultFetches.pending : \E resp \in Responses(f) : resultSync(f, resp)
    \/ remove
    \/ getData
    \/ \E f \in manuscriptPage.pending : \E attrs \in Manuscripts : manuscriptSync(f, attrs)
    \/ \E folio \in Folios : manuscriptChangeFolio(folio)
    \/ pageRemove

SpecLifecycle == Init /\ [][NextLifecycle]_vars

(***************************************************************************)
(* The navigation tab: the channel changes its folio and announces it with *)
(* an event whose argument is any folio or none.                           *)
(***************************************************************************)
NextNavTab ==
    \/ showNavTab
    \/ \E folio \in Folios, payload \in Folios \cup {Undefined} : changeFolio(folio, payload)
    \/ destroyNavTab

SpecNavTab == Init /\ [][NextNavTab]_vars

(***************************************************************************)
(* Template loading: any bundle of the template files, and loadTemplate    *)
(* called with every id of up to MaxIdLen characters.                      *)
(***************************************************************************)
TemplateStores == UNION {[files -> TemplateSources] : files \in SUBSET TemplateFiles}

TemplateIds == SeqsUpTo({"#", "a", "b"}, MaxIdLen)

InitTemplates ==
    /\ InitViews
    /\ \E templates \in TemplateStores : templateCache = NewTemplateCache(templates)

NextTemplates == \E templateId \in TemplateIds : loadTemplate(templateId)

SpecTemplates == InitTemplates /\ [][NextTemplates]_vars

(***************************************************************************)
(* Properties of the controller                                            *)
(***************************************************************************)
Called(name) == \E i \in 1..Len(calls) : calls[i] = name

StoreEmpty(c) == c.results = <<>> /\ c.numFound = 0

\* The fetch a completion step takes out of flight.
Completed == CHOOSE f \in collection.pending : f \notin collection'.pending

\* C1: last-issued-wins.  When a fetch of the collection completes with a
\* response, the store adopts the response (and announces the
\* synchronization) exactly when the fetch is the last one search()
\* dispatched and the query is still non-empty; the completion of a fetch
\* that a later fetch superseded leaves results and numFound as they are.
C1_LastIssuedWins ==
    [][handler'.op = "fetchSuccess" =>
        IF Completed = collection.issued /\ Truthy(searchParameters.query)
        THEN /\ calls' = <<"sync">>
             /\ [results |-> collection'.results, numFound |-> collection'.numFound]
                    \in Responses(Completed)
        ELSE /\ collection'.results = collection.results
             /\ collection'.numFound = collection.numFound]_vars

\* Fetch A completed after fetch B, which was dispatched later, had already
\* filled the store: the store still holds B's records.
C1_Witness ==
    /\ handler.op = "fetchSuccess"
    /\ calls = <<"ignored">>
    /\ collection.pending = {}
    /\ collection.issued >= 2
    /\ collection.results # <<>>
    /\ collection.results[1].fetch = collection.issued

\* C2: while the query is empty the store is empty with numFound = 0,
\* whatever fetches were in flight when the query became empty and whenever
\* they complete.
C2_EmptyQueryStaysEmpty ==
    ~Truthy(searchParameters.query) => StoreEmpty(collection)

\* A fetch dispatched for a non-empty query completed with a response after
\* the query had become empty.
C2_Witness ==
    /\ ~Truthy(searchParameters.query)
    /\ handler.op = "fetchSuccess"
    /\ collection.issued >= 1
    /\ StoreEmpty(collection)

\* C3: a search() that runs while the query is '', null or undefined leaves
\* the store empty with numFound = 0 and dispatches no fetch, for every
\* field and every restriction set.
C3_EmptyQueryNoFetch ==
    [][(Len(calls') > 0 /\ calls'[1] = "search" /\ ~Truthy(searchParameters'.query)) =>
        /\ StoreEmpty(collection')
        /\ collection'.issued = collection.issued
        /\ collection'.pending = collection.pending
        /\ \A i \in 1..Len(calls') : calls'[i] # "fetch"]_vars

\* search() ran on a null query with a restriction set, on the mode field,
\* after results had been stored.
C3_Witness ==
    /\ Called("search")
    /\ searchParameters.query = Null
    /\ searchParameters.field = "mode"
    /\ restrictions # <<>>
    /\ collection.issued >= 1
    /\ StoreEmpty(collection)

HasRestriction(restr, field, value) ==
    \E i \in 1..Len(restr) : restr[i] = [field |-> field, value |-> value]

Receives(queryBuilder, name, value, combinator) ==
    \E i \in 1..Len(queryBuilder) :
        queryBuilder[i] = [name |-> name, value |-> value, combinator |-> combinator]

\* C8: setRestriction(field, value) leaves the restriction set holding
\* field -> value once, with every other restriction as it was.  With a
\* non-empty query it dispatches one fetch at once, whose builder carries
\* the new restriction; with an empty query it dispatches nothing and
\* leaves the collection untouched.  Every fetch dispatched carries every
\* restriction set by then.
C8_SetRestriction ==
    [][/\ handler'.op = "setRestriction" =>
            /\ HasRestriction(restrictions', handler'.field, handler'.value)
            /\ Cardinality({i \in 1..Len(restrictions') :
                    restrictions'[i].field = handler'.field}) = 1
            /\ \A i \in 1..Len(restrictions) :
                    restrictions[i].field # handler'.field =>
                        HasRestriction(restrictions', restrictions[i].field,
                                       restrictions[i].value)
            /\ \A i \in 1..Len(restrictions') :
                    restrictions'[i].field # handler'.field =>
                        HasRestriction(restrictions, restrictions'[i].field,
                                       restrictions'[i].value)
            /\ IF Truthy(searchParameters.query)
               THEN /\ collection'.issued = collection.issued + 1
                    /\ collection'.current = collection'.issued
                    /\ collection'.issued \in collection'.pending
                    /\ Receives(collection'.baseSolrQuery,
                                getSearchField(handler'.field), handler'.value, "default")
               ELSE /\ collection' = collection
                    /\ calls' = <<>>
       /\ collection'.issued > collection.issued =>
            \A i \in 1..Len(restrictions') :
                Receives(collection'.baseSolrQuery,
                         getSearchField(restrictions'[i].field),
                         restrictions'[i].value, "default")]_vars

\* setRestriction overwrote the manuscript restriction while a query was
\* active and another restriction was set.
C8_Witness ==
    /\ handler.op = "setRestriction"
    /\ handler.field = "manuscript"
    /\ Len(restrictions) = 2
    /\ restrictions[1] = [field |-> "manuscript", value |-> Str(<<"1">>)]
    /\ Truthy(searchParameters.query)
    /\ Called("fetch")

\* setRestriction ran with no query active after results had been fetched.
C8_WitnessIdle ==
    /\ handler.op = "setRestriction"
    /\ ~Truthy(searchParameters.query)
    /\ collection.issued >= 1
    /\ calls = <<>>

\* C9: every change of the query or of the field runs search() on the state
\* after the change: a non-empty query dispatches a fetch whose builder is
\* the one of the current query, field and restrictions; an empty query
\* dispatches nothing and leaves the store reset.
C9_ChangeTriggersSearch ==
    [][(searchParameters'.query # searchParameters.query
            \/ searchParameters'.field # searchParameters.field) =>
        /\ Len(calls') > 0 /\ calls'[1] = "search"
        /\ IF Truthy(searchParameters'.query)
           THEN /\ collection'.issued > collection.issued
                /\ collection'.current = collection'.issued
                /\ collection'.issued \in collection'.pending
                /\ collection'.baseSolrQuery =
                        setRestrictionsOnBuilder(
                            setSearchQueryOnBuilder(<<>>, searchParameters'.field,
                                splitQueryOf(searchParameters'.field,
                                             searchParameters'.query)),
                            restrictions')
           ELSE /\ collection'.issued = collection.issued
                /\ StoreEmpty(collection')]_vars

\* The input view changed only the field while a query was active and a
\* restriction was set.
C9_Witness ==
    /\ handler.op = "setField"
    /\ searchParameters.field = "mode"
    /\ Truthy(searchParameters.query)
    /\ restrictions # <<>>
    /\ Called("fetch")

ModeValues(query) == IF IsString(query) THEN Split(query.str) ELSE query.arr

SingleCharacter(values) == SelectSeq(values, LAMBDA v : Len(v) = 1)

MultiCharacter(values) == SelectSeq(values, LAMBDA v : Len(v) >= 2)

NotSingleCharacter(values) == SelectSeq(values, LAMBDA v : Len(v) # 1)

CompositeClause(s, t) ==
    <<"(", "m", "o", "d", "e", ":", "(">> \o Join(s, OR_SEP)
        \o <<")", " ", "O", "R", " ">>
        \o <<"m", "o", "d", "e", "_", "t", "_", "h", "i", "d", "d", "e", "n", ":", "(">>
        \o Join(t, OR_SEP) \o <<")", ")">>

ModeQueryShown ==
    /\ handler.op = "display"
    /\ searchParameters.field = "mode"
    /\ Truthy(searchParameters.query)

\* C10: a mode query with at least one single-character value and at
\* least one multi-character value hands the builder exactly one
\* constraint for the query, the raw clause
\* (mode:(s1 OR ...) OR mode_t_hidden:(t1 OR ...)), where s1.. are the
\* single-character values in input order and t1.. the other values in
\* input order, all the multi-character values among them; the builder
\* gets no constraint named mode or mode_t_hidden.
C10_MixedModeComposite ==
    LET values == ModeValues(searchParameters.query)
        b == collection.baseSolrQuery
    IN (/\ ModeQueryShown
        /\ SingleCharacter(values) # <<>>
        /\ MultiCharacter(values) # <<>>) =>
            /\ collection.issued >= 1
            /\ Len(b) = 1 + Len(restrictions)
            /\ b[1] = [name |-> "_hardcodedSpecialQuery",
                       value |-> Str(CompositeClause(SingleCharacter(values),
                                                     NotSingleCharacter(values))),
                       combinator |-> "default"]
            /\ MultiCharacter(NotSingleCharacter(values)) = MultiCharacter(values)
            /\ \A i \in 1..Len(b) : b[i].name \notin {"mode", "mode_t_hidden"}

\* The mode query <<"aa", "1", "a1">> was displayed and its clause built.
C10_Witness ==
    /\ ModeQueryShown
    /\ searchParameters.query = Arr(<< <<"a", "a">>, <<"1">>, <<"a", "1">> >>)
    /\ restrictions # <<>>
    /\ collection.baseSolrQuery[1].value =
            Str(CompositeClause(<< <<"1">> >>, << <<"a", "a">>, <<"a", "1">> >>))

\* The constraints a builder holds besides its first one are on fields
\* other than the mode fields.
NoOtherModeConstraint(b) ==
    \A i \in 2..Len(b) : b[i].name \notin {"mode", "mode_t_hidden", "_hardcodedSpecialQuery"}

\* The only constraint the builder function places for a query on the mode
\* field, when it places exactly one.
OnlyConstraint(query) ==
    LET b == setSearchQueryOnBuilder(<<>>, "mode", query)
    IN IF Len(b) = 1 THEN b[1] ELSE [name |-> "", value |-> Null, combinator |-> ""]

\* C11: a mode query whose values are all of one kind places exactly one
\* query constraint on the builder: on mode, with the values, when every
\* value is a single character, and on mode_t_hidden when every value has
\* more than one character.  So it is for a sequence of values, for a
\* string that search() splits into its values, and for a single string
\* value that the builder function is handed as it is.
C11_OneKindOneConstraint ==
    LET query == searchParameters.query
        values == ModeValues(query)
        b == collection.baseSolrQuery
    IN (ModeQueryShown /\ values # <<>>) =>
        /\ SingleCharacter(values) = values =>
                /\ Len(b) = 1 + Len(restrictions)
                /\ b[1] = [name |-> "mode", value |-> Arr(values), combinator |-> "OR"]
                /\ NoOtherModeConstraint(b)
        /\ MultiCharacter(values) = values =>
                /\ Len(b) = 1 + Len(restrictions)
                /\ b[1] = [name |-> "mode_t_hidden", value |-> Arr(values),
                           combinator |-> "OR"]
                /\ NoOtherModeConstraint(b)
        /\ (IsString(query) /\ Len(values) = 1 /\ Len(query.str) = 1) =>
                /\ OnlyConstraint(query).name = "mode"
                /\ OnlyConstraint(query).value = query
        /\ (IsString(query) /\ Len(values) = 1 /\ Len(query.str) >= 2) =>
                /\ OnlyConstraint(query).name = "mode_t_hidden"
                /\ OnlyConstraint(query).value = query

\* The mode query <<"1", "a">>, two single-character values, was displayed
\* with a restriction set and the builder got its constraint on mode.
C11_Witness ==
    /\ ModeQueryShown
    /\ searchParameters.query = Arr(<< <<"1">>, <<"a">> >>)
    /\ restrictions # <<>>
    /\ collection.baseSolrQuery[1].name = "mode"

\* The name of the index field of each field name, written out.
IndexFieldName(f) ==
    CASE f = "feast" -> "feast_t_hidden"
      [] f = "office" -> "office_t_hidden"
      [] f = "genre" -> "genre_t_hidden"
      [] f = "position" -> "position_t_hidden"
      [] f = "mode" -> "mode_t_hidden"
      [] f = "differentia" -> "differentia_t_hidden"
      [] f = "finalis" -> "finalis_t_hidden"
      [] f = "folio" -> "folio_t_hidden"
      [] OTHER -> f

\* C12: getSearchField(f) is f followed by _t_hidden for feast, office,
\* genre, position, mode, differentia, finalis and folio, and f itself for
\* every other name, known or not; the constraint of a query on a field
\* other than mode and the constraint of every restriction are named so.
C12_GetSearchField ==
    LET f == searchParameters.field
        b == collection.baseSolrQuery
    IN /\ getSearchField(f) = IndexFieldName(f)
       /\ (handler.op = "display" /\ Truthy(searchParameters.query) /\ f # "mode") =>
            /\ Len(b) = 1 + Len(restrictions)
            /\ b[1].name = IndexFieldName(f)
            /\ \A i \in 1..Len(restrictions) :
                    b[i + 1].name = IndexFieldName(restrictions[i].field)

\* A query on position was displayed and its constraint is on
\* position_t_hidden.
C12_Witness ==
    /\ handler.op = "display"
    /\ searchParameters.field = "position"
    /\ Truthy(searchParameters.query)
    /\ collection.baseSolrQuery[1].name = "position_t_hidden"

\* A query on a field name the controller does not know was displayed and
\* its constraint is on that name.
C12_WitnessUnknown ==
    /\ handler.op = "display"
    /\ searchParameters.field = "siglum"
    /\ Truthy(searchParameters.query)
    /\ collection.baseSolrQuery[1].name = "siglum"

\* A query on a field other than mode was displayed and searched.
FieldQueryShown ==
    /\ handler.op = "display"
    /\ searchParameters.field # "mode"
    /\ Truthy(searchParameters.query)

\* C13: a search on a field other than mode with a non-empty query hands
\* the builder exactly one constraint for the query, first, on
\* getSearchField(field) with the OR combinator and carrying the values
\* of the query; every other constraint of the builder is a restriction,
\* set without a combinator.  The query Easter on feast gives a
\* constraint on feast_t_hidden whose one value is Easter.
C13_OneQueryConstraint ==
    LET field == searchParameters.field
        query == searchParameters.query
        b == collection.baseSolrQuery
    IN FieldQueryShown =>
        /\ collection.issued >= 1
        /\ Len(b) = 1 + Len(restrictions)
        /\ b[1].name = getSearchField(field)
        /\ b[1].combinator = "OR"
        /\ b[1].value \in {query, Arr(ModeValues(query))}
        /\ \A i \in 2..Len(b) :
                /\ b[i].combinator = "default"
                /\ b[i].value = restrictions[i - 1].value
        /\ (field = "feast" /\ query = Str(Easter)) =>
                b[1] = [name |-> "feast_t_hidden", value |-> Arr(<<Easter>>),
                        combinator |-> "OR"]

\* Easter was searched on feast with a restriction set.
C13_Witness ==
    /\ FieldQueryShown
    /\ searchParameters.field = "feast"
    /\ searchParameters.query = Str(Easter)
    /\ restrictions # <<>>
    /\ collection.baseSolrQuery[1].name = "feast_t_hidden"

\* The fields whose query is a list of discrete values: the mode field,
\* whose input hands the controller an array.
MultiValuedFields == {"mode"}

\* C17: search() splits a query at its commas only when the query is a
\* string and the field expects several discrete values: on 'all' the string
\* reaches the builder as it is, a sequence reaches it as it is, and on
\* every other field that takes one value a string reaches it as one
\* value, commas included.
C17_SplitOnlyMultiValued ==
    LET field == searchParameters.field
        query == searchParameters.query
        b == collection.baseSolrQuery
    IN (handler.op = "display" /\ Truthy(query) /\ field \notin MultiValuedFields) =>
        /\ field = "all" => b[1].value = query
        /\ ~IsString(query) => b[1].value = query
        /\ IsString(query) => b[1].value \in {query, Arr(<<query.str>>)}

\* C22: in a mode query only values of two or more characters go to
\* mode_t_hidden.  A constraint on mode_t_hidden has a value list that is
\* not empty and holds no value shorter than two characters, and a
\* composite clause has the single-character values under mode and the
\* values of two or more characters, at least one, under mode_t_hidden:
\* zero-length values and the empty sequence put nothing on mode_t_hidden.
C22_OnlyMultiCharacterToText ==
    LET values == ModeValues(searchParameters.query)
        b == collection.baseSolrQuery
    IN ModeQueryShown =>
        /\ b[1].name = "mode_t_hidden" =>
                /\ b[1].value.arr # <<>>
                /\ MultiCharacter(b[1].value.arr) = b[1].value.arr
        /\ b[1].name = "_hardcodedSpecialQuery" =>
                /\ MultiCharacter(values) # <<>>
                /\ b[1].value = Str(CompositeClause(SingleCharacter(values),
                                                      MultiCharacter(values)))

(***************************************************************************)
(* Properties of the notation search view                                  *)
(***************************************************************************)
CallCount(name) == Cardinality({i \in 1..Len(calls) : calls[i] = name})

CallIndex(name) == CHOOSE i \in 1..Len(calls) : calls[i] = name

\* The fetch whose response was synchronized last is no longer the newest
\* search: a later fetch was dispatched, or an empty query was submitted.
Superseded ==
    \/ notationView.results.fetch < resultFetches.issued
    \/ notationView.query = Str(<<>>)

\* C4: the completion of a superseded fetch of the notation search view
\* does not paint boxes, does not build a paginator and does not zoom.
C4_SupersededNeverApplies ==
    (handler.op = "resultFetchCallback" /\ Superseded) =>
        /\ ~Called("paintBoxes")
        /\ ~Called("new PaginationView")
        /\ ~Called("zoomToLocation")

\* C5: every result synchronization calls paintBoxes once, with the result
\* sequence just synchronized; submitting an empty query paints the empty
\* sequence; so the boxes painted are always the results synchronized last
\* or, after an empty query, none.
C5_PaintedEqualsResults ==
    /\ handler.op = "resultFetchCallback" =>
            /\ CallCount("paintBoxes") = 1
            /\ divaView.boxes = notationView.results.results
    /\ (handler.op = "newSearch" /\ notationView.query = Str(<<>>)) =>
            /\ CallCount("paintBoxes") = 1
            /\ divaView.boxes = <<>>
    /\ divaView.boxes \in {<<>>, notationView.results.results}

\* An empty result sequence was synchronized after a non-empty one had been
\* painted.
C5_Witness ==
    /\ handler.op = "resultFetchCallback"
    /\ notationView.results.results = <<>>
    /\ notationView.constructed >= 2
    /\ divaView.boxes = <<>>

\* C6: every result synchronization leaves a paginator built by that
\* synchronization, on page 1 with page size 1 and elementCount = numFound,
\* and has called zoomToLocation with results[0] before renderResults.
C6_FreshCursorFirstResult ==
    handler.op = "resultFetchCallback" =>
        /\ notationView.paginator.id = notationView.constructed
        /\ notationView.paginator.id >= 1
        /\ getPage(notationView.paginator) = 1
        /\ notationView.paginator.pageSize = 1
        /\ notationView.paginator.elementCount = notationView.results.numFound
        /\ divaView.location =
                <<IF notationView.results.results # <<>>
                  THEN notationView.results.results[1]
                  ELSE UndefinedRecord>>
        /\ CallCount("zoomToLocation") = 1
        /\ CallIndex("new PaginationView") < CallIndex("zoomToLocation")
        /\ CallIndex("zoomToLocation") < CallIndex("renderResults")

\* A second synchronization delivered results and the view zoomed to the
\* first of them.
C6_Witness ==
    /\ handler.op = "resultFetchCallback"
    /\ notationView.constructed >= 2
    /\ notationView.results.results # <<>>
    /\ notationView.results.numFound >= 2
    /\ divaView.location = <<notationView.results.results[1]>>

\* C7: after a synchronization that delivers no results (numFound = 0)
\* .note-pagination shows no paginator, no paginator is listened to and no
\* box is painted.
C7_EmptyResultClearsPagination ==
    (/\ handler.op = "resultFetchCallback"
     /\ notationView.results.results = <<>>
     /\ notationView.results.numFound = 0) =>
        /\ page.notePagination = 0
        /\ notationView.paginator.id \notin notationView.listening
        /\ divaView.boxes = <<>>

\* C19: every zoomToLocation of the notation search view is handed a
\* record of the current result sequence: the page of the current paginator
\* less one is an index into the results, and the location zoomed to is
\* the record at that index.
C19_ZoomWithinResults ==
    LET index == getPage(notationView.paginator) - 1
        results == notationView.results.results
    IN (handler.op \in {"resultFetchCallback", "zoomToResult"}
            /\ Called("zoomToLocation")) =>
        /\ 0 <= index
        /\ index < Len(results)
        /\ divaView.location = <<results[index + 1]>>

(***************************************************************************)
(* Properties of failing fetches                                           *)
(***************************************************************************)
\* C18: the failure of a fetch changes nothing but the set of requests in
\* flight.  The controller's store keeps its results, its numFound and its
\* authoritative fetch, and query, field and restrictions stay; the
\* notation search view keeps its results, paginator and markup, the
\* viewer keeps its boxes and location, and no paintBoxes, new
\* PaginationView or zoomToLocation is called.
C18_FailureChangesNothing ==
    [][/\ handler'.op = "fetchError" =>
            /\ collection'.results = collection.results
            /\ collection'.numFound = collection.numFound
            /\ collection'.current = collection.current
            /\ collection'.issued = collection.issued
            /\ UNCHANGED <<searchParameters, restrictions, viewVars, appVars>>
       /\ handler'.op = "resultError" =>
            /\ UNCHANGED <<notationView, divaView, page, controllerVars, appVars>>
            /\ resultFetches'.issued = resultFetches.issued
            /\ \A i \in 1..Len(calls') :
                    calls'[i] \notin {"paintBoxes", "new PaginationView",
                                      "zoomToLocation", "renderResults"}]_vars

\* The one fetch of the view failed with nothing painted, and a fetch of
\* the controller failed after an earlier one had filled the store.
C18_Witness ==
    /\ handler.op = "fetchError"
    /\ collection.results # <<>>
    /\ collection.pending = {}
    /\ resultFetches.issued = 1
    /\ resultFetches.pending = {}
    /\ notationView.constructed = 0
    /\ divaView = [boxes |-> <<>>, location |-> <<>>]

\* A fetch of the view failed after an earlier one had been synchronized:
\* the viewer still shows the earlier results.
C18_WitnessView ==
    /\ handler.op = "resultError"
    /\ notationView.constructed = 1
    /\ resultFetches.issued = 2
    /\ divaView.boxes # <<>>
    /\ divaView.boxes = notationView.results.results

C20_WitnessNotation ==
    /\ handler.op = "resultSync"
    /\ notationView.removed
    /\ ~manuscriptPage.removed
    /\ notationView.constructed = 0
    /\ divaView = [boxes |-> <<>>, location |-> <<>>]

(***************************************************************************)
(* Properties of the navigation tab                                        *)
(***************************************************************************)
\* C14: while the tab listens, every 'change:folio' event of the channel
\* renders it once more, and the number it displays afterwards is the folio
\* the channel replies to request('folio'), whatever the argument of the
\* event was.
C14_NavTabShowsChannelFolio ==
    [][(handler'.op = "change:folio" /\ navTab.listening) =>
        /\ navTab'.renders = navTab.renders + 1
        /\ navTab'.number = navTab'.folio
        /\ calls' = <<"render", "request:folio">>]_vars

\* An event announced a folio other than the one the channel holds, and
\* the tab, rendered before, displays the channel's folio.
C14_Witness ==
    /\ handler.op = "change:folio"
    /\ navTab.listening
    /\ navTab.renders >= 2
    /\ handler.value # navTab.folio
    /\ handler.value # Undefined
    /\ navTab.number = navTab.folio

(***************************************************************************)
(* Properties of template loading                                          *)
(***************************************************************************)
\* The template id without its first character when that is '#'.
WithoutLeadingHash(templateId) ==
    IF Len(templateId) >= 1 /\ templateId[1] = "#"
    THEN SubSeq(templateId, 2, Len(templateId))
    ELSE templateId

\* C15: loadTemplate(templateId) looks the key templateId-without-one-
\* leading-'#' followed by .html up in the store: it returns the template
\* stored under the key and throws nothing when the store has the key, it
\* throws NoTemplateError and returns nothing when not, and it leaves the
\* store as it is.
C15_LoadTemplate ==
    [][handler'.op = "loadTemplate" =>
        LET templateId == handler'.value.str
            key == WithoutLeadingHash(templateId) \o <<".", "h", "t", "m", "l">>
            templates == templateCache.templates
        IN /\ templateCache'.templates = templates
           /\ IF key \in DOMAIN templates
              THEN /\ templateCache'.returned = templates[key]
                   /\ templateCache'.thrown = ""
              ELSE /\ templateCache'.returned = NoTemplate
                   /\ templateCache'.thrown = "NoTemplateError"]_vars

\* The template id ##a was loaded from a bundle that holds #a.html and
\* not a.html: one '#' was stripped and the template of #a.html returned.
C15_Witness ==
    /\ handler.op = "loadTemplate"
    /\ handler.value = Str(<<"#", "#", "a">>)
    /\ DOMAIN templateCache.templates = {<<"#", "a", ".", "h", "t", "m", "l">>}
    /\ templateCache.returned = "function b"
    /\ templateCache.thrown = ""

\* A template id whose file is not in the bundle was loaded and
\* NoTemplateError thrown.
C15_WitnessThrown ==
    /\ handler.op = "loadTemplate"
    /\ handler.value = Str(<<"#", "b">>)
    /\ templateCache.templates # << >>
    /\ templateCache.thrown = "NoTemplateError"
    /\ templateCache.returned = NoTemplate

\* The place of a call among the calls of the step just taken.
NextCallIndex(name) == CHOOSE i \in 1..Len(calls') : calls'[i] = name

\* C21: every "manuscriptChangeFolio" event that reaches a page view still
\* listening runs updateFolio, which reads the viewer's folio once, hands
\* the folio view the URL of that folio and the folio as custom number,
\* updates it, and then triggers "ChangeFolio" with the folio and after it
\* "SilentUrlUpdate"; when "ChangeFolio" is triggered the folio view has the
\* folio of the event as its custom number.
C21_UpdateFolioOrder ==
    [][(handler'.op \in {"updateFolio", "manuscriptChangeFolio"}
            /\ "manuscriptChangeFolio" \in manuscriptPage.listening) =>
        LET folio == manuscriptPage'.folio
            folioView == manuscriptPage'.folioView
            triggered == manuscriptPage'.triggered
        IN /\ handler'.op = "updateFolio"
           /\ Cardinality({i \in 1..Len(calls') : calls'[i] = "getFolio"}) = 1
           /\ folioView.customNumber = folio
           /\ folioView.url = FolioSetUrl(manuscriptPage.manuscript.id, folio)
           /\ NextCallIndex("getFolio") < NextCallIndex("setUrl")
           /\ NextCallIndex("setUrl") < NextCallIndex("setCustomNumber")
           /\ NextCallIndex("setCustomNumber") < NextCallIndex("update")
           /\ NextCallIndex("update") < NextCallIndex("trigger:ChangeFolio")
           /\ NextCallIndex("trigger:ChangeFolio") < NextCallIndex("trigger:SilentUrlUpdate")
           /\ Len(triggered) = 2
           /\ triggered[1].event = "ChangeFolio"
           /\ triggered[1].folio = folio
           /\ triggered[1].shown = folio
           /\ triggered[2].event = "SilentUrlUpdate"]_vars

\* The viewer moved from one folio to another after the manuscript had been
\* fetched, and the second event was announced with the second folio.
C21_Witness ==
    /\ handler.op = "updateFolio"
    /\ manuscriptPage.manuscript # NoManuscript
    /\ manuscriptPage.folio = Str(<<"1", "v">>)
    /\ manuscriptPage.folioView.customNumber = Str(<<"1", "v">>)
    /\ manuscriptPage.folioView.url = FolioSetUrl(Str(<<"3">>), Str(<<"1", "v">>))
    /\ manuscriptPage.triggered[1].folio = Str(<<"1", "v">>)

====
